---- MODULE Spec2Model ----
(***************************************************************************)
(* A model of the rag-webapp repository: the label normaliser and the      *)
(* ingestion pipeline (src/ingest.py), the answer engine (src/rag.py) and  *)
(* the job registry with its worker thread and request handlers            *)
(* (src/app.py).                                                           *)
(*                                                                         *)
(* Text is modelled as a sequence of characters.  A character is a         *)
(* one-character string; the one non-ASCII character the model uses, the   *)
(* ARABIC-INDIC DIGIT TWO, is written as the atom "U+0662".                *)
(***************************************************************************)
EXTENDS Integers, Sequences, FiniteSets, TLC

VARIABLES
    lk_in,      \* label_key: the input it is applied to
    lk_out,     \* label_key: <<"pending">>, or <<"returned", key>>
    ing,        \* run_ingestion: its locals, the chunk store and the vector index
    jobs,       \* app.py: the job registry, job id -> its entry
    worker,     \* app.py: the worker thread of each job
    cursor,     \* the sqlite3 cursor each job's fetch() closure shares
    call        \* the request threads: the chat_api / answer() call of each

labelVars  == <<lk_in, lk_out>>
appVars    == <<jobs, worker, cursor, call>>
vars == <<lk_in, lk_out, ing, jobs, worker, cursor, call>>

(***************************************************************************)
(* Characters and strings                                                  *)
(***************************************************************************)
Chars(s) == [i \in 1..Len(s) |-> SubSeq(s, i, i)]

None == <<"None">>

LowerLetters == Chars("abcdefghijklmnopqrstuvwxyz")
UpperLetters == Chars("ABCDEFGHIJKLMNOPQRSTUVWXYZ")
AsciiDigits  == Chars("0123456789")
ArabicIndicTwo == "U+0662"

Range(f) == {f[i] : i \in DOMAIN f}

IndexOf(seq, c) == CHOOSE i \in DOMAIN seq : seq[i] = c

\* str.lower(), one character
LowerChar(c) ==
    IF c \in Range(UpperLetters) THEN LowerLetters[IndexOf(UpperLetters, c)] ELSE c

\* str.lower()
Lower(s) == [i \in DOMAIN s |-> LowerChar(s[i])]

\* character classes, as sets
AsciiDigitSet == Range(AsciiDigits)
\* \d of a str pattern: any Unicode decimal digit
DigitSet   == AsciiDigitSet \cup {ArabicIndicTwo}
LowerAZSet == Range(LowerLetters)
LetterSet  == Range(LowerLetters) \cup Range(UpperLetters)
\* \w
WordSet    == LetterSet \cup DigitSet \cup {"_"}
\* \s of a str pattern, and the separators of str.split(): the characters of
\* str.isspace().  Those without a TLA+ escape are named by their code point.
SpaceSet   == {" ", "\t", "\n", "\f", "\r", "U+000B", "U+001C", "U+001D", "U+001E",
               "U+001F", "U+0085", "U+00A0", "U+1680", "U+2000", "U+2001", "U+2002",
               "U+2003", "U+2004", "U+2005", "U+2006", "U+2007", "U+2008", "U+2009",
               "U+200A", "U+2028", "U+2029", "U+202F", "U+205F", "U+3000"}
RomanSet   == {"i", "v", "x", "l", "c", "d", "m"}

IsDigit(c)   == c \in DigitSet
IsWord(c)    == c \in WordSet
IsLowerAZ(c) == c \in LowerAZSet

\* the elements of s that are in the set keep, in order
RECURSIVE SelectChars(_, _)
SelectChars(s, keep) ==
    IF s = <<>> THEN <<>>
    ELSE (IF Head(s) \in keep THEN <<Head(s)>> ELSE <<>>) \o SelectChars(Tail(s), keep)

\* str.replace(c, "")
RECURSIVE RemoveChar(_, _)
RemoveChar(s, c) ==
    IF s = <<>> THEN <<>>
    ELSE (IF Head(s) = c THEN <<>> ELSE <<Head(s)>>) \o RemoveChar(Tail(s), c)

\* s[from..] starts with p
StartsWithAt(s, from, p) ==
    /\ from + Len(p) - 1 <= Len(s)
    /\ \A k \in 1..Len(p) : s[from + k - 1] = p[k]

\* length of the longest run of characters of the set cls that starts at s[from]
RECURSIVE RunLen(_, _, _)
RunLen(s, from, cls) ==
    IF from > Len(s) THEN 0
    ELSE IF s[from] \notin cls THEN 0
    ELSE 1 + RunLen(s, from + 1, cls)

\* str(n) for n >= 0
RECURSIVE Str(_)
Str(n) == IF n < 10 THEN <<AsciiDigits[n + 1]>>
          ELSE Str(n \div 10) \o <<AsciiDigits[(n % 10) + 1]>>

(***************************************************************************)
(* ingest.py: roman_to_int and label_key                                   *)
(***************************************************************************)
ROMAN_MAP(ch) ==
    CASE ch = "i" -> 1 [] ch = "v" -> 5 [] ch = "x" -> 10 [] ch = "l" -> 50
      [] ch = "c" -> 100 [] ch = "d" -> 500 [] ch = "m" -> 1000 [] OTHER -> 0

\* the loop of roman_to_int over reversed(s.lower()): s[1..i] is still to be read
RECURSIVE RomanLoop(_, _, _, _)
RomanLoop(s, i, total, prev) ==
    IF i = 0 THEN total
    ELSE LET val == ROMAN_MAP(s[i])
         IN  RomanLoop(s, i - 1, total + (IF val < prev THEN -val ELSE val), val)

\* a loop that never subtracts
RECURSIVE RomanLoopAdditive(_, _, _, _)
RomanLoopAdditive(s, i, total, prev) ==
    IF i = 0 THEN total
    ELSE RomanLoopAdditive(s, i - 1, total + ROMAN_MAP(s[i]), ROMAN_MAP(s[i]))

roman_to_int_additive(s) == RomanLoopAdditive(Lower(s), Len(s), 0, 0)

roman_to_int(s) == RomanLoop(Lower(s), Len(s), 0, 0)

\* LABEL_RE.match: ^(fig(?:ure)?|table)\s*([ivxlcdm]+|\d+)([a-z])?
\* The alternatives of the head are tried in the regex's order, "figure"
\* before "fig" before "table"; \s*, the numeral and the suffix are greedy,
\* and since nothing follows the optional suffix the first greedy attempt of
\* a head that is followed by a numeral succeeds.
LabelHeads == <<Chars("figure"), Chars("fig"), Chars("table")>>

LabelTryHead(s, h) ==
    LET afterHead == Len(h) + 1
        afterWs   == afterHead + RunLen(s, afterHead, SpaceSet)
        romanLen  == RunLen(s, afterWs, RomanSet)
        digitLen  == RunLen(s, afterWs, DigitSet)
        rawLen    == IF romanLen > 0 THEN romanLen ELSE digitLen
        afterRaw  == afterWs + rawLen
        hasSuff   == afterRaw <= Len(s) /\ IsLowerAZ(s[afterRaw])
    IN  [ok   |-> StartsWithAt(s, 1, h) /\ rawLen > 0,
         head |-> h,
         raw  |-> SubSeq(s, afterWs, afterRaw - 1),
         suff |-> IF hasSuff THEN <<s[afterRaw]>> ELSE <<>>]

LabelMatch(s) ==
    LET ok == {k \in 1..Len(LabelHeads) : LabelTryHead(s, LabelHeads[k]).ok}
    IN  IF ok = {} THEN [ok |-> FALSE, head |-> <<>>, raw |-> <<>>, suff |-> <<>>]
        ELSE LabelTryHead(s, LabelHeads[CHOOSE k \in ok : \A j \in ok : k <= j])

label_key(txt) ==
    IF txt = None \/ txt = <<>> THEN None
    ELSE LET m == LabelMatch(RemoveChar(Lower(txt), " "))
         IN  IF ~m.ok THEN None
             ELSE LET num == IF \A i \in DOMAIN m.raw : IsDigit(m.raw[i])
                             THEN m.raw ELSE Str(roman_to_int(m.raw))
                      key == (IF StartsWithAt(m.head, 1, Chars("fig"))
                              THEN Chars("fig") ELSE Chars("table")) \o num
                  IN  key \o m.suff

(***************************************************************************)
(* Inputs of label_key: a head, an optional blank, the number n written as *)
(* a valid roman numeral (either case) or in arabic digits, and an         *)
(* optional suffix letter; and some texts that are no label.               *)
(***************************************************************************)
MaxNum == 24

LabelNumbers == (1..MaxNum) \cup {40, 49, 90, 400, 500, 944, 1994, 3999}

UpperChar(c) ==
    IF c \in Range(LowerLetters) THEN UpperLetters[IndexOf(LowerLetters, c)] ELSE c
Upper(s) == [i \in DOMAIN s |-> UpperChar(s[i])]

RomanUnits    == <<"", "i", "ii", "iii", "iv", "v", "vi", "vii", "viii", "ix">>
RomanTens     == <<"", "x", "xx", "xxx", "xl", "l", "lx", "lxx", "lxxx", "xc">>
RomanHundreds == <<"", "c", "cc", "ccc", "cd", "d", "dc", "dcc", "dccc", "cm">>
RomanThousands == <<"", "m", "mm", "mmm">>

\* the standard (subtractive) roman numeral of n, 1 <= n <= 3999, in lower case
RomanOf(n) ==
    Chars(RomanThousands[(n \div 1000) + 1]) \o Chars(RomanHundreds[((n \div 100) % 10) + 1])
      \o Chars(RomanTens[((n \div 10) % 10) + 1]) \o Chars(RomanUnits[(n % 10) + 1])

HeadSpellings == {Chars("fig"), Chars("Fig"), Chars("figure"), Chars("Figure"),
                  Chars("FIGURE"), Chars("table"), Chars("Table")}
SuffixChoices == {<<>>} \cup {<<c>> : c \in LowerAZSet}
NoLabelTexts  == {None, <<>>, Chars("random text"), Chars("Fig. 2"), Chars("figure"),
                  Chars("2"), Chars("tab 3"), Chars("see Figure 2"), Chars("table-2")}

LabelInputs ==
    [kind : {"label"}, head : HeadSpellings, sep : {<<>>, <<" ">>, <<"\r">>},
     style : {"roman", "ROMAN", "arabic"}, n : LabelNumbers, suff : SuffixChoices,
     text : {<<>>}]
      \cup
    [kind : {"other"}, head : {<<>>}, sep : {<<>>}, style : {"none"}, n : {0},
     suff : {<<>>}, text : NoLabelTexts]

\* the text label_key is applied to
LabelText(in) ==
    IF in.kind = "other" THEN in.text
    ELSE in.head \o in.sep
           \o (CASE in.style = "roman"  -> RomanOf(in.n)
                 [] in.style = "ROMAN"  -> Upper(RomanOf(in.n))
                 [] in.style = "arabic" -> Str(in.n))
           \o in.suff

\* the key the label normaliser is specified to give
ExpectedKey(in) ==
    (IF Lower(in.head)[1] = "f" THEN Chars("fig") ELSE Chars("table")) \o Str(in.n) \o in.suff

InitLabel ==
    /\ lk_in \in LabelInputs
    /\ lk_out = <<"pending">>

IdleLabel ==
    /\ lk_in = [kind |-> "other", head |-> <<>>, sep |-> <<>>, style |-> "none",
                n |-> 0, suff |-> <<>>, text |-> None]
    /\ lk_out = <<"idle">>

ApplyLabelKey ==
    /\ lk_out = <<"pending">>
    /\ lk_out' = <<"returned", label_key(LabelText(lk_in))>>
    /\ UNCHANGED <<lk_in, ing, appVars>>

(***************************************************************************)
(* rag.py: clean_query, the label pattern of answer() and the key that     *)
(* _inject_by_label searches with                                          *)
(***************************************************************************)
STOP_WORDS ==
    {Chars("figure"), Chars("fig"), Chars("image"), Chars("diagram"), Chars("picture"),
     Chars("table"), Chars("chart"), Chars("plot"),
     Chars("of"), Chars("for"), Chars("showing"), Chars("displaying"),
     Chars("the"), Chars("a"), Chars("an")}

\* re.split(sepclass+, s) without its empty strings: the maximal runs of
\* characters outside seps; cur is the run being read
RECURSIVE Tokens(_, _, _)
Tokens(s, seps, cur) ==
    IF s = <<>> THEN (IF cur = <<>> THEN <<>> ELSE <<cur>>)
    ELSE IF Head(s) \in seps
         THEN (IF cur = <<>> THEN <<>> ELSE <<cur>>) \o Tokens(Tail(s), seps, <<>>)
         ELSE Tokens(Tail(s), seps, Append(cur, Head(s)))

\* the characters of s that are not word characters (\W)
NonWordOf(s) == {s[i] : i \in DOMAIN s} \ WordSet

\* " ".join(words)
RECURSIVE JoinBlank(_)
JoinBlank(words) ==
    IF words = <<>> THEN <<>>
    ELSE IF Len(words) = 1 THEN words[1]
    ELSE words[1] \o <<" ">> \o JoinBlank(Tail(words))

clean_query(q) ==
    LET tokens == Tokens(Lower(q), NonWordOf(Lower(q)), <<>>)
        keep   == SelectSeq(tokens, LAMBDA t : t \notin STOP_WORDS)
    IN  IF JoinBlank(keep) # <<>> THEN JoinBlank(keep) ELSE q

\* s contains p
Contains(s, p) == \E i \in 1..(Len(s) + 1) : StartsWithAt(s, i, p)

\* \b(fig(?:ure)?|table)\s*([ivxlcdm\d]+[a-z]?)\b tried at position i with
\* head h.  \s* and the numeral run are greedy; a shorter numeral never helps,
\* because the character after it would be a word character, so the attempt
\* succeeds exactly when the greedy run, with or without a suffix letter,
\* ends at a word boundary.
RefTryAt(s, i, h) ==
    LET afterHead == i + Len(h)
        afterWs   == afterHead + RunLen(s, afterHead, SpaceSet)
        numLen    == RunLen(s, afterWs, RomanSet \cup DigitSet)
        afterNum  == afterWs + numLen
        boundary(k) == k > Len(s) \/ ~IsWord(s[k])
        withSuff  == /\ afterNum <= Len(s)
                     /\ IsLowerAZ(s[afterNum])
                     /\ boundary(afterNum + 1)
        ok        == /\ i = 1 \/ ~IsWord(s[i - 1])
                     /\ StartsWithAt(s, i, h)
                     /\ numLen > 0
                     /\ (boundary(afterNum) \/ withSuff)
    IN  [ok |-> ok, start |-> i, head |-> h,
         stop |-> IF ~ok THEN i ELSE IF boundary(afterNum) THEN afterNum ELSE afterNum + 1]

NoRef == [ok |-> FALSE, start |-> 0, head |-> <<>>, stop |-> 0]

\* re.search of the label pattern in s from position from on: the leftmost
\* position that matches, with the first head alternative that matches there
RefSearch(s, from) ==
    LET hits == {<<i, k>> \in (from..Len(s)) \X (1..Len(LabelHeads)) :
                    RefTryAt(s, i, LabelHeads[k]).ok}
    IN  IF hits = {} THEN NoRef
        ELSE LET first == CHOOSE x \in hits :
                            \A y \in hits : x[1] < y[1] \/ (x[1] = y[1] /\ x[2] <= y[2])
             IN  RefTryAt(s, first[1], LabelHeads[first[2]])

\* match.group(0)
RefText(s, m) == SubSeq(s, m.start, m.stop - 1)

\* label.split()[-1]
LastWord(label) ==
    LET words == Tokens(label, SpaceSet, <<>>) IN words[Len(words)]

\* re.sub(r'[^ivxlcdm0-9a-z]', '', label.split()[-1], flags=re.I)
InjectKey(label) == SelectChars(LastWord(label), LetterSet \cup AsciiDigitSet)

\* kind or ("image" if label.lower().startswith("fig") else "table")
KindOfLabel(label) ==
    IF StartsWithAt(Lower(label), 1, Chars("fig")) THEN "image" ELSE "table"

\* the intent keywords of answer(), in the order they are tested
IMAGE_WORDS == {Chars("figure"), Chars("image"), Chars("diagram"), Chars("fig ")}

\* the branch of answer(): 1 label, 2 image intent, 3 table intent, 4 free text
AnswerBranchTableFirst(q) ==
    IF RefSearch(Lower(q), 1).ok THEN 1
    ELSE IF Contains(Lower(q), Chars("table")) THEN 3
    ELSE IF \E w \in IMAGE_WORDS : Contains(Lower(q), w) THEN 2
    ELSE 4

AnswerBranch(q) ==
    IF RefSearch(Lower(q), 1).ok THEN 1
    ELSE IF \E w \in IMAGE_WORDS : Contains(Lower(q), w) THEN 2
    ELSE IF Contains(Lower(q), Chars("table")) THEN 3
    ELSE 4

(***************************************************************************)
(* ingest.py: run_ingestion.                                               *)
(*                                                                         *)
(* A corpus is the sequence of converted documents, in the order of the    *)
(* folder's glob.  A document is                                           *)
(*   [name, npages, units, tables, pictures]                               *)
(* name: the stem of the file name as written; units: what the chunker     *)
(* yields, [page, len, math] (len(txt) and whether the math pattern is     *)
(* found in txt); tables: [prov, page, marker] (marker: FIG_TBL is found   *)
(* in the markdown); pictures: [prov, page].                               *)
(*                                                                         *)
(* A row of the chunks table is a record of its nine columns.              *)
(***************************************************************************)
EQUATION_MAX_LEN == 300

Row(cid, source, page, type, content, caption, img_path, key) ==
    [chunk_id |-> cid, source |-> source, page |-> page, type |-> type,
     content |-> content, caption |-> caption, img_path |-> img_path,
     parent_chunk_id |-> None, label_key |-> key]

\* the text of a chunk: what it is the text of (the k-th unit, page, table or
\* picture of a document), after the prefix the pipeline puts before it
Content(what, name, k, prefix) == [what |-> what, doc |-> name, k |-> k, prefix |-> prefix]

\* Path(src).stem.lower()
Stem(doc) == Lower(doc.name)

\* what the captioning collaborator answers (.text.strip())
TableSummary == Chars("Sales by year")
ImageSummary == Chars("A bar chart")

\* typ of a text unit
Classify(u) == IF u.len < EQUATION_MAX_LEN /\ u.math THEN "equation" ELSE "text"

\* cid += 1
NextCid(cid) == cid + 1

\* cid += 1, then INSERT INTO chunks VALUES(cid, ...): st is [rows, cid], the
\* rows the connection sees and the counter
Insert(st, source, page, type, content, caption, img_path, key) ==
    LET c == NextCid(st.cid)
    IN  [rows |-> Append(st.rows, Row(c, source, page, type, content, caption, img_path, key)),
         cid  |-> c]

\* 1. text & equations, from unit k on
RECURSIVE TextPass(_, _, _)
TextPass(doc, st, k) ==
    IF k > Len(doc.units) THEN st
    ELSE TextPass(doc,
                  Insert(st, Stem(doc), doc.units[k].page, Classify(doc.units[k]),
                         Content("text", doc.name, k, <<>>), None, None, None),
                  k + 1)

\* SELECT 1 FROM chunks WHERE source=? AND page=? AND type='text'
HasTextRow(rows, stem, p) ==
    \E i \in DOMAIN rows :
        rows[i].source = stem /\ rows[i].page = p /\ rows[i].type = "text"

\* 2. OCR fallback for empty pages, pages p..upto
RECURSIVE PagePass(_, _, _, _)
PagePass(doc, st, p, upto) ==
    IF p > upto THEN st
    ELSE IF HasTextRow(st.rows, Stem(doc), p) THEN PagePass(doc, st, p + 1, upto)
    ELSE PagePass(doc,
                  Insert(st, Stem(doc), p, "page", Content("ocr page", doc.name, p, <<>>),
                         None, None, None),
                  p + 1, upto)

\* 3. tables k..upto of doc; tbl_no is the counter before table k
RECURSIVE TablePass(_, _, _, _, _)
TablePass(doc, st, tbl_no, k, upto) ==
    IF k > upto THEN st
    ELSE IF ~doc.tables[k].prov THEN TablePass(doc, st, tbl_no, k + 1, upto)
    ELSE LET no  == tbl_no + 1
             tag == Chars("table") \o Str(no)
             md  == IF doc.tables[k].marker THEN Content("md", doc.name, k, <<>>)
                    ELSE Content("md", doc.name, k, tag \o Chars(":\n"))
             cap == tag \o Chars(": ") \o TableSummary
         IN  TablePass(doc,
                       Insert(st, Stem(doc), doc.tables[k].page, "table", md, cap,
                              None, label_key(cap)),
                       no, k + 1, upto)

\* 4. images, pictures i..upto; fig_no is the counter before picture i
RECURSIVE ImagePass(_, _, _, _, _)
ImagePass(doc, st, fig_no, i, upto) ==
    IF i > upto THEN st
    ELSE IF ~doc.pictures[i].prov THEN ImagePass(doc, st, fig_no, i + 1, upto)
    ELSE LET no == fig_no + 1
         IN  ImagePass(doc,
                       Insert(st, Stem(doc), doc.pictures[i].page, "image",
                              Content("ocr image", doc.name, i, <<>>), None,
                              <<"_pics", Stem(doc), no, doc.pictures[i].page, i>>,
                              label_key(Chars("fig") \o Str(no) \o Chars(":"))),
                       no, i + 1, upto)

\* the image rows of the store, in SELECT order
ImageRowIds(rows) == SelectSeq([i \in DOMAIN rows |-> i], LAMBDA i : rows[i].type = "image")

\* 5. summarise all images: the captions of the first n image rows are set
Captioned(rows, n) ==
    LET ids == ImageRowIds(rows)
    IN  [i \in DOMAIN rows |->
            IF \E k \in 1..n : ids[k] = i
            THEN [rows[i] EXCEPT !.caption = ImageSummary] ELSE rows[i]]

\* an embedded text that leaves the caption out
FullTextContentOnly(r) ==
    [caption |-> <<>>, sep |-> <<>>, content |-> r.content]

\* the text of a row that is embedded: ((cap or "") + "\n" + txt) for an
\* image or a table, txt otherwise
FullText(r) ==
    IF r.type \in {"image", "table"}
    THEN [caption |-> IF r.caption = None THEN <<>> ELSE r.caption, sep |-> <<"\n">>,
          content |-> r.content]
    ELSE [caption |-> <<>>, sep |-> <<>>, content |-> r.content]

\* the documents added to the vector store
IndexDocs(rows) ==
    [i \in DOMAIN rows |->
        [page_content |-> FullText(rows[i]),
         metadata |-> [chunk_id |-> rows[i].chunk_id, source |-> rows[i].source,
                       page |-> rows[i].page, type |-> rows[i].type]]]

(***************************************************************************)
(* The corpora run_ingestion is applied to                                 *)
(***************************************************************************)
\* the size of a corpus: each document counts one, plus its pages, plus its
\* units, tables and pictures
MaxSize == 6

DocNames == {Chars("Report"), Chars("report"), Chars("notes")}

SeqsUpTo(S, n) == UNION {[1..k -> S] : k \in 0..n}

\* the chunker yields the units in reading order
UnitSeqs(np, n) ==
    {us \in SeqsUpTo([page : 1..np, len : {EQUATION_MAX_LEN - 50, EQUATION_MAX_LEN},
                      math : {TRUE}], n) :
        \A k \in 1..(Len(us) - 1) : us[k].page <= us[k + 1].page}

TableSeqs(n) ==
    SeqsUpTo({[prov |-> FALSE, page |-> 0, marker |-> FALSE]}
               \cup [prov : {TRUE}, page : {1}, marker : BOOLEAN], n)

PictureSeqs(n) ==
    SeqsUpTo({[prov |-> FALSE, page |-> 0], [prov |-> TRUE, page |-> 1]}, n)

DocSize(doc) == 1 + doc.npages + Len(doc.units) + Len(doc.tables) + Len(doc.pictures)

\* the documents of size at most n
DocsUpTo(n) ==
    UNION {UNION {UNION {
        [name : DocNames, npages : {np}, units : {us}, tables : {ts},
         pictures : PictureSeqs(n - 1 - np - Len(us) - Len(ts))]
        : ts \in TableSeqs(n - 1 - np - Len(us))}
        : us \in UnitSeqs(np, n - 1 - np)}
        : np \in 1..(n - 1)}

\* the corpora of size at most n whose documents have distinct file names,
\* none of them in used
RECURSIVE CorporaUpTo(_, _)
CorporaUpTo(n, used) ==
    {<<>>} \cup
    UNION {{<<doc>> \o rest : rest \in CorporaUpTo(n - DocSize(doc), used \cup {doc.name})}
           : doc \in {x \in DocsUpTo(n) : x.name \notin used}}

Corpora == CorporaUpTo(MaxSize, {})

(***************************************************************************)
(* run_ingestion, pass by pass.  ing.st is [rows, cid]: what the           *)
(* connection sees and the id counter; ing.committed is what the database  *)
(* file holds (the rows as of the last conn.commit()).                     *)
(***************************************************************************)
IngInit(corpus) ==
    [pc |-> "start", corpus |-> corpus, nconv |-> 0, d |-> 0,
     st |-> [rows |-> <<>>, cid |-> 0], committed |-> <<>>,
     index |-> <<>>, error |-> None]

IngIdle == [IngInit(<<>>) EXCEPT !.pc = "idle"]

CurDoc == ing.corpus[ing.d]

Raise(e) == [ing EXCEPT !.pc = "raised", !.error = e]

\* GEMINI_API_KEY is not set
IngestNoKey ==
    /\ ing.pc = "start"
    /\ ing' = Raise("RuntimeError")
    /\ UNCHANGED <<labelVars, appVars>>

\* lines 80-121: the leftovers are removed, the table is created and committed
IngestStart ==
    /\ ing.pc = "start"
    /\ ing' = [ing EXCEPT !.pc = IF Len(ing.corpus) = 0 THEN "captions" ELSE "convert"]
    /\ UNCHANGED <<labelVars, appVars>>

\* converter.convert(pdf) returns the next document
ConvertDoc ==
    /\ ing.pc = "convert"
    /\ ing' = [ing EXCEPT !.nconv = @ + 1,
                          !.pc = IF ing.nconv + 1 = Len(ing.corpus) THEN "text" ELSE "convert",
                          !.d  = IF ing.nconv + 1 = Len(ing.corpus) THEN 1 ELSE 0]
    /\ UNCHANGED <<labelVars, appVars>>

\* converter.convert(pdf) raises
ConvertFails ==
    /\ ing.pc = "convert"
    /\ ing' = Raise("ConversionError")
    /\ UNCHANGED <<labelVars, appVars>>

TextStep ==
    /\ ing.pc = "text"
    /\ ing' = [ing EXCEPT !.st = TextPass(CurDoc, ing.st, 1), !.pc = "pages"]
    /\ UNCHANGED <<labelVars, appVars>>

PageStep ==
    /\ ing.pc = "pages"
    /\ ing' = [ing EXCEPT !.st = PagePass(CurDoc, ing.st, 1, CurDoc.npages),
                          !.pc = "tables"]
    /\ UNCHANGED <<labelVars, appVars>>

\* pytesseract raises on page p (line 155): the pages before it have their
\* chunks, and the counter is not advanced for p
PageStepFails ==
    /\ ing.pc = "pages"
    /\ \E p \in 1..CurDoc.npages :
          LET st == PagePass(CurDoc, ing.st, 1, p - 1)
          IN  /\ ~HasTextRow(st.rows, Stem(CurDoc), p)
              /\ ing' = [Raise("OcrError") EXCEPT !.st = st]
    /\ UNCHANGED <<labelVars, appVars>>

TableStep ==
    /\ ing.pc = "tables"
    /\ ing' = [ing EXCEPT !.st = TablePass(CurDoc, ing.st, 0, 1, Len(CurDoc.tables)),
                          !.pc = "images"]
    /\ UNCHANGED <<labelVars, appVars>>

\* the captioning call of table k raises: the tables before it are inserted
TableStepFails ==
    /\ ing.pc = "tables"
    /\ \E k \in 1..Len(CurDoc.tables) :
          /\ CurDoc.tables[k].prov
          /\ ing' = [Raise("CaptionError") EXCEPT
                        !.st = TablePass(CurDoc, ing.st, 0, 1, k - 1)]
    /\ UNCHANGED <<labelVars, appVars>>

\* the image pass of the document, and the conn.commit() that ends the document
ImageStep ==
    /\ ing.pc = "images"
    /\ LET st == ImagePass(CurDoc, ing.st, 0, 1, Len(CurDoc.pictures))
       IN  ing' = [ing EXCEPT !.st = st, !.committed = st.rows,
                              !.d  = @ + 1,
                              !.pc = IF ing.d = Len(ing.corpus) THEN "captions" ELSE "text"]
    /\ UNCHANGED <<labelVars, appVars>>

\* ocr_image(pil) raises on picture i while the arguments of its INSERT are
\* evaluated (line 190), after cid += 1 (line 187): the pictures before it
\* have their chunks, the counter is advanced for i and no row is inserted
ImageStepFails ==
    /\ ing.pc = "images"
    /\ \E i \in 1..Len(CurDoc.pictures) :
          /\ CurDoc.pictures[i].prov
          /\ LET st == ImagePass(CurDoc, ing.st, 0, 1, i - 1)
             IN  ing' = [Raise("OcrError") EXCEPT
                            !.st = [st EXCEPT !.cid = NextCid(st.cid)]]
    /\ UNCHANGED <<labelVars, appVars>>

\* 5. summarise all images, and conn.commit()
CaptionStep ==
    /\ ing.pc = "captions"
    /\ LET rows == Captioned(ing.st.rows, Len(ImageRowIds(ing.st.rows)))
       IN  ing' = [ing EXCEPT !.st.rows = rows, !.committed = rows, !.pc = "index"]
    /\ UNCHANGED <<labelVars, appVars>>

\* the captioning call of the k-th image raises: the captions before it are set
CaptionStepFails ==
    /\ ing.pc = "captions"
    /\ \E k \in 1..Len(ImageRowIds(ing.st.rows)) :
          ing' = [Raise("CaptionError") EXCEPT
                     !.st.rows = Captioned(ing.st.rows, k - 1)]
    /\ UNCHANGED <<labelVars, appVars>>

\* the vector store is built and the RagChat returned
IndexStep ==
    /\ ing.pc = "index"
    /\ ing' = [ing EXCEPT !.index = IndexDocs(ing.st.rows), !.pc = "returned"]
    /\ UNCHANGED <<labelVars, appVars>>

IngestNext ==
    \/ IngestNoKey \/ IngestStart \/ ConvertDoc \/ ConvertFails
    \/ TextStep \/ PageStep \/ PageStepFails \/ TableStep \/ TableStepFails
    \/ ImageStep \/ ImageStepFails \/ CaptionStep \/ CaptionStepFails \/ IndexStep

(***************************************************************************)
(* run_ingestion as one call that returns: what the worker thread of       *)
(* app.py gets back                                                        *)
(***************************************************************************)
RECURSIVE IngestDocs(_, _, _)
IngestDocs(corpus, d, st) ==
    IF d > Len(corpus) THEN st
    ELSE LET doc == corpus[d]
             s1  == TextPass(doc, st, 1)
             s2  == PagePass(doc, s1, 1, doc.npages)
             s3  == TablePass(doc, s2, 0, 1, Len(doc.tables))
         IN  IngestDocs(corpus, d + 1, ImagePass(doc, s3, 0, 1, Len(doc.pictures)))

StoreOf(corpus) ==
    LET rows == IngestDocs(corpus, 1, [rows |-> <<>>, cid |-> 0]).rows
    IN  Captioned(rows, Len(ImageRowIds(rows)))

\* RagChat(vectordb, fetch, answer): the vector store, and the rows that the
\* cursor of the fetch closure reads
RagOf(corpus) ==
    [built |-> TRUE, rows |-> StoreOf(corpus), index |-> IndexDocs(StoreOf(corpus))]

NoRag == [built |-> FALSE, rows |-> <<>>, index |-> <<>>]

(***************************************************************************)
(* rag.py: RagChat.answer, step by step.  The value answer() returns is a  *)
(* sequence of characters and rendered blocks; a block is a record.        *)
(***************************************************************************)
\* fetch(cid): cur.execute("SELECT ... WHERE chunk_id=?") leaves the matching
\* rows in the cursor
SelectById(rows, cid) == SelectSeq(rows, LAMBDA r : r.chunk_id = cid)

\* the block rendered for a fetched row
RenderBlock(kind, row) ==
    IF kind = "image"
    THEN [tag |-> "figure", kind |-> kind, chunk_id |-> row.chunk_id,
          img |-> row.img_path, alt |-> row.caption, caption |-> row.caption]
    ELSE [tag |-> "details", kind |-> kind, chunk_id |-> row.chunk_id,
          summary |-> row.caption, table |-> row.content]

\* "<em>No {kind} matches that description.</em>"
NoMatchBlock(kind) ==
    [tag |-> "em", kind |-> kind]

\* plain text in the returned value
Txt(s) == [i \in DOMAIN s |-> [tag |-> "char", c |-> s[i]]]

\* similarity_search(query, k, filter={"type": kind}): the entries it ranks
Candidates(rag, kind) ==
    {rag.index[i].metadata.chunk_id : i \in {k \in DOMAIN rag.index :
                                               rag.index[k].metadata.type = kind}}

\* str.replace("\n", "<br>")
RECURSIVE NewlinesToBr(_)
NewlinesToBr(s) ==
    IF s = <<>> THEN <<>>
    ELSE (IF Head(s) = "\n" THEN Chars("<br>") ELSE <<Head(s)>>) \o NewlinesToBr(Tail(s))

IdleCall ==
    [pc |-> "idle", job |-> "none", question |-> <<>>, same |-> FALSE,
     seen |-> "none", branch |-> 0, mode |-> "none", label |-> <<>>, kind |-> "none",
     query |-> <<>>, hit |-> 0, searches |-> <<>>, llm |-> 0,
     hits |-> <<>>, text |-> <<>>, pos |-> 0, buf |-> <<>>, out |-> None,
     raised |-> "None", answered |-> FALSE]

\* the call as chat_api hands it to rag.answer(question)
NewCall(j, q, same, seen) ==
    [IdleCall EXCEPT !.pc = "route", !.job = j, !.question = q, !.same = same,
                     !.seen = seen, !.answered = TRUE]

RagOfCall(t) == jobs[call[t].job].rag

\* answer(), lines 84-100: the branch is chosen
AnswerRoute(t) ==
    /\ call[t].pc = "route"
    /\ LET q  == call[t].question
           m  == RefSearch(Lower(q), 1)
           br == AnswerBranch(q)
       IN  call' = [call EXCEPT ![t] =
             CASE br = 1 ->
                    [@ EXCEPT !.branch = 1, !.mode = "label", !.pc = "search",
                              !.label = RefText(Lower(q), m),
                              !.kind  = IF StartsWithAt(m.head, 1, Chars("fig"))
                                        THEN "image" ELSE "table",
                              !.query = InjectKey(RefText(Lower(q), m))]
               [] br = 2 ->
                    [@ EXCEPT !.branch = 2, !.mode = "best", !.pc = "search",
                              !.kind = "image", !.query = q]
               [] br = 3 ->
                    [@ EXCEPT !.branch = 3, !.mode = "best", !.pc = "search",
                              !.kind = "table", !.query = q]
               [] OTHER ->
                    [@ EXCEPT !.branch = 4, !.pc = "llm"]]
    /\ UNCHANGED <<labelVars, ing, jobs, worker, cursor>>

\* what a call returns, or where it goes on, once a label or a question is
\* resolved to the value v
Resolved(c, v) ==
    IF c.mode = "inject"
    THEN [c EXCEPT !.buf = @ \o v, !.pc = "sub"]
    ELSE [c EXCEPT !.out = v, !.pc = "done"]

\* _top_hit: the query is cleaned and the similarity search issued
AnswerSearch(t) ==
    /\ call[t].pc = "search"
    /\ LET c      == call[t]
           logged == [c EXCEPT !.searches =
                        Append(@, [query |-> clean_query(c.query), k |-> 1,
                                   type |-> c.kind])]
           cands  == Candidates(RagOfCall(t), c.kind)
       IN  IF cands = {}
           THEN call' = [call EXCEPT ![t] =
                   Resolved([logged EXCEPT !.hit = 0, !.hits = Append(@, 0)],
                            IF c.mode = "best" THEN <<NoMatchBlock(c.kind)>>
                            ELSE Txt(c.label))]
           ELSE \E cid \in cands :
                   call' = [call EXCEPT ![t] =
                              [logged EXCEPT !.hit = cid, !.hits = Append(@, cid),
                                             !.pc = "execute"]]
    /\ UNCHANGED <<labelVars, ing, jobs, worker, cursor>>

\* sqlite3.connect(DB_PATH) keeps check_same_thread=True: the connection and
\* its cursors refuse a thread whose ident is not the one that opened them
ThreadAllowedUnchecked(c) == TRUE
ThreadAllowed(c) == c.same

Raised(c, e) == [c EXCEPT !.raised = e, !.pc = "done"]

\* fetch(cid), first half: cur.execute(...) on the shared cursor
AnswerExecute(t) ==
    /\ call[t].pc = "execute"
    /\ IF ThreadAllowed(call[t])
       THEN /\ cursor' = [cursor EXCEPT ![call[t].job] =
                            SelectById(RagOfCall(t).rows, call[t].hit)]
            /\ call' = [call EXCEPT ![t].pc = "fetchone"]
       ELSE /\ call' = [call EXCEPT ![t] = Raised(@, "ProgrammingError")]
            /\ UNCHANGED cursor
    /\ UNCHANGED <<labelVars, ing, jobs, worker>>

\* fetch(cid), second half: .fetchone() on the shared cursor, the unpacking of
\* the row and the rendering of the block
AnswerFetchone(t) ==
    /\ call[t].pc = "fetchone"
    /\ LET j   == call[t].job
           cur == cursor[j]
       IN  IF cur = <<>>
           THEN /\ call' = [call EXCEPT ![t] = Raised(@, "TypeError")]
                /\ UNCHANGED cursor
           ELSE /\ cursor' = [cursor EXCEPT ![j] = Tail(cur)]
                /\ call' = [call EXCEPT ![t] =
                      IF call[t].kind = "image" /\ Head(cur).img_path = None
                      THEN Raised(@, "TypeError")
                      ELSE Resolved(@, <<RenderBlock(call[t].kind, Head(cur))>>)]
    /\ UNCHANGED <<labelVars, ing, jobs, worker>>

\* what the generation collaborator may answer
GeneratedTexts == {Chars("stub answer"), Chars("See Figure 1.\nAlso TABLE 2b"),
                   Chars("Table\n1")}

\* line 100: self._llm(question).replace("\n", "<br>"); the closure searches
\* the text chunks with the question as it is and has the answer generated
AnswerGenerate(t) ==
    /\ call[t].pc = "llm"
    /\ \E g \in GeneratedTexts :
          call' = [call EXCEPT ![t] =
                     [@ EXCEPT !.llm = @ + 1, !.mode = "inject",
                               !.searches = Append(@, [query |-> call[t].question, k |-> 6,
                                                       type |-> "text"]),
                               !.text = NewlinesToBr(g), !.pos = 1, !.pc = "sub"]]
    /\ UNCHANGED <<labelVars, ing, jobs, worker, cursor>>

\* lines 101-106: re.sub(label pattern, _inject_by_label, html_answer, re.I),
\* one match at a time
AnswerSub(t) ==
    /\ call[t].pc = "sub"
    /\ LET c == call[t]
           m == RefSearch(Lower(c.text), c.pos)
       IN  call' = [call EXCEPT ![t] =
             IF ~m.ok
             THEN [c EXCEPT !.out = c.buf \o Txt(SubSeq(c.text, c.pos, Len(c.text))),
                            !.buf = <<>>, !.pc = "done"]
             ELSE [c EXCEPT !.buf = @ \o Txt(SubSeq(c.text, c.pos, m.start - 1)),
                            !.label = RefText(c.text, m),
                            !.kind  = KindOfLabel(RefText(c.text, m)),
                            !.query = InjectKey(RefText(c.text, m)),
                            !.pos = m.stop, !.pc = "search"]]
    /\ UNCHANGED <<labelVars, ing, jobs, worker, cursor>>

AnswerNext(t) ==
    \/ AnswerRoute(t) \/ AnswerSearch(t) \/ AnswerExecute(t) \/ AnswerFetchone(t)
    \/ AnswerGenerate(t) \/ AnswerSub(t)

(***************************************************************************)
(* app.py: the job registry, index(), the worker thread _run_job and        *)
(* chat_api()                                                              *)
(***************************************************************************)
JobIds  == {"j1"}
Threads == {"t1", "t2"}

NoJob == [present |-> FALSE, status |-> "None", rag |-> NoRag, error |-> "None"]

NoWorker == [pc |-> "none", rag |-> NoRag, exc |-> "None"]

\* a document of one page without text units, with the given numbers of
\* tables and pictures
SmallDoc(nt, np) ==
    [name |-> Chars("Report"), npages |-> 1, units |-> <<>>,
     tables |-> [k \in 1..nt |-> [prov |-> TRUE, page |-> 1, marker |-> TRUE]],
     pictures |-> [k \in 1..np |-> [prov |-> TRUE, page |-> 1]]]

\* the corpora uploaded to the application: one document, with one table and
\* one picture, or with two pictures
AppCorpora == {<<SmallDoc(1, 1)>>, <<SmallDoc(0, 2)>>}

\* the page fallback calls pytesseract for page p of the d-th document: no
\* chunk of type 'text' has the document's source and the page p, among the
\* chunks of the documents up to the d-th (lines 151-155)
PageReachesOcr(c, d, p) ==
    ~\E e \in 1..d : /\ Stem(c[e]) = Stem(c[d])
                     /\ \E k \in DOMAIN c[e].units :
                           c[e].units[k].page = p /\ Classify(c[e].units[k]) = "text"

\* the errors run_ingestion can raise on the corpus c: without the API key;
\* in a conversion; in a captioning call, made for each table and picture
\* with provenance; in an OCR call, made for each page that reaches the
\* fallback and each picture with provenance
IngestErrors(c) ==
    {"RuntimeError"}
      \cup (IF c # <<>> THEN {"ConversionError"} ELSE {})
      \cup (IF \E d \in DOMAIN c : \/ \E k \in DOMAIN c[d].tables : c[d].tables[k].prov
                                   \/ \E k \in DOMAIN c[d].pictures : c[d].pictures[k].prov
            THEN {"CaptionError"} ELSE {})
      \cup (IF \E d \in DOMAIN c : \/ \E p \in 1..c[d].npages : PageReachesOcr(c, d, p)
                                   \/ \E k \in DOMAIN c[d].pictures : c[d].pictures[k].prov
            THEN {"OcrError"} ELSE {})

\* index(), POST with files: the job is registered and its worker started
Index(j) ==
    /\ ~jobs[j].present
    /\ jobs' = [jobs EXCEPT ![j] = [present |-> TRUE, status |-> "pending",
                                    rag |-> NoRag, error |-> "None"]]
    /\ worker' = [worker EXCEPT ![j] = [NoWorker EXCEPT !.pc = "run"]]
    /\ UNCHANGED <<labelVars, ing, cursor, call>>

\* _run_job: run_ingestion(folder) returns the RagChat of the uploaded corpus
WorkerIngest(j) ==
    /\ worker[j].pc = "run"
    /\ \E c \in AppCorpora :
          worker' = [worker EXCEPT ![j] = [@ EXCEPT !.pc = "store", !.rag = RagOf(c)]]
    /\ UNCHANGED <<labelVars, ing, jobs, cursor, call>>

\* _run_job: run_ingestion(folder) raises
WorkerIngestFails(j) ==
    /\ worker[j].pc = "run"
    /\ \E c \in AppCorpora : \E e \in IngestErrors(c) :
          worker' = [worker EXCEPT ![j] = [@ EXCEPT !.pc = "except", !.exc = e]]
    /\ UNCHANGED <<labelVars, ing, jobs, cursor, call>>

\* a worker that flips the status where it should store the rag
WorkerStoreRagStatusFirst(j) ==
    /\ worker[j].pc = "store"
    /\ jobs' = [jobs EXCEPT ![j].status = "done"]
    /\ worker' = [worker EXCEPT ![j].pc = "mark"]
    /\ UNCHANGED <<labelVars, ing, cursor, call>>

\* (1) jobs[job_id]["rag"] = rag
WorkerStoreRag(j) ==
    /\ worker[j].pc = "store"
    /\ jobs' = [jobs EXCEPT ![j].rag = worker[j].rag]
    /\ worker' = [worker EXCEPT ![j].pc = "mark"]
    /\ UNCHANGED <<labelVars, ing, cursor, call>>

\* (2) jobs[job_id]["status"] = "done"
WorkerMarkDone(j) ==
    /\ worker[j].pc = "mark"
    /\ jobs' = [jobs EXCEPT ![j].status = "done"]
    /\ worker' = [worker EXCEPT ![j].pc = "finishing"]
    /\ UNCHANGED <<labelVars, ing, cursor, call>>

\* except: jobs[job_id]["status"] = "error"
WorkerMarkError(j) ==
    /\ worker[j].pc = "except"
    /\ jobs' = [jobs EXCEPT ![j].status = "error"]
    /\ worker' = [worker EXCEPT ![j].pc = "errmsg"]
    /\ UNCHANGED <<labelVars, ing, cursor, call>>

\* except: jobs[job_id]["error"] = str(exc)
WorkerSetError(j) ==
    /\ worker[j].pc = "errmsg"
    /\ jobs' = [jobs EXCEPT ![j].error = worker[j].exc]
    /\ worker' = [worker EXCEPT ![j].pc = "finishing"]
    /\ UNCHANGED <<labelVars, ing, cursor, call>>

\* the worker thread ends; its ident may be given to a later thread
WorkerExit(j) ==
    /\ worker[j].pc = "finishing"
    /\ worker' = [worker EXCEPT ![j].pc = "exited"]
    /\ UNCHANGED <<labelVars, ing, jobs, cursor, call>>

\* the questions sent to /api/chat
AppQuestions == {Chars("Show Figure 1"), Chars("the table"), Chars("hello")}

\* whether a new request thread can have the ident of the thread that opened
\* the connection of job j: that thread has ended, and no live thread has it
CanShareIdent(t, j) ==
    /\ worker[j].pc = "exited"
    /\ \A u \in Threads \ {t} : ~(call[u].pc # "idle" /\ call[u].job = j /\ call[u].same)

\* chat_api(job_id), lines 94-107: the rag of the job is read; without one the
\* handler answers that ingestion is not finished, with one it calls rag.answer
ChatStart(t, j, q) ==
    /\ call[t].pc = "idle"
    /\ LET seen == IF jobs[j].present THEN jobs[j].status ELSE "absent"
       IN  IF jobs[j].present /\ jobs[j].rag.built
           THEN \E same \in {FALSE, CanShareIdent(t, j)} :
                   call' = [call EXCEPT ![t] = NewCall(j, q, same, seen)]
           ELSE call' = [call EXCEPT ![t] =
                   [IdleCall EXCEPT !.pc = "done", !.job = j, !.question = q,
                                    !.seen = seen,
                                    !.out = Txt(Chars("Ingestion not finished."))]]
    /\ UNCHANGED <<labelVars, ing, jobs, worker, cursor>>

\* the response is sent and the request thread ends
ChatEnd(t) ==
    /\ call[t].pc = "done"
    /\ call' = [call EXCEPT ![t] = IdleCall]
    /\ UNCHANGED <<labelVars, ing, jobs, worker, cursor>>

(***************************************************************************)
(* Specifications                                                          *)
(***************************************************************************)
IdleApp ==
    /\ jobs = [j \in JobIds |-> NoJob]
    /\ worker = [j \in JobIds |-> NoWorker]
    /\ cursor = [j \in JobIds |-> <<>>]
    /\ call = [t \in Threads |-> IdleCall]

\* the application: uploads, workers and chat requests
Init == IdleLabel /\ ing = IngIdle /\ IdleApp

Next ==
    \/ \E j \in JobIds : \/ Index(j)
                         \/ WorkerIngest(j) \/ WorkerIngestFails(j)
                         \/ WorkerStoreRag(j) \/ WorkerMarkDone(j)
                         \/ WorkerMarkError(j) \/ WorkerSetError(j) \/ WorkerExit(j)
    \/ \E t \in Threads : \/ \E j \in JobIds, q \in AppQuestions : ChatStart(t, j, q)
                          \/ AnswerNext(t)
                          \/ ChatEnd(t)

Spec == Init /\ [][Next]_vars

\* label_key applied to one text
InitLabelOnly == InitLabel /\ ing = IngIdle /\ IdleApp

NextLabel == ApplyLabelKey

SpecLabel == InitLabelOnly /\ [][NextLabel]_vars

\* run_ingestion applied to one corpus
InitIngest == IdleLabel /\ IdleApp /\ \E c \in Corpora : ing = IngInit(c)

SpecIngest == InitIngest /\ [][IngestNext]_vars

(***************************************************************************)
(* One answer() call on the RagChat of a finished ingestion                *)
(***************************************************************************)
MaxFrags == 2

QuestionFrags ==
    {Chars("What does Figure 2 show?"), Chars("Show "), Chars("Figure"), Chars("fig"),
     Chars("Table"), Chars(" 1"), Chars("2b"), <<" ", ArabicIndicTwo>>, Chars(" image"),
     Chars("the table"), Chars(" II"), Chars("?"), <<"\r", "2">>}

RECURSIVE Concat(_)
Concat(ss) == IF ss = <<>> THEN <<>> ELSE Head(ss) \o Concat(Tail(ss))

Questions == {Concat(fs) : fs \in SeqsUpTo(QuestionFrags, MaxFrags)}

\* no document, or one document of one page with at most two tables and pictures
AnswerCorpora ==
    {<<>>} \cup {<<SmallDoc(nt, np)>> : <<nt, np>> \in {x \in (0..2) \X (0..2) : x[1] + x[2] <= 2}}

InitAnswer ==
    /\ IdleLabel /\ ing = IngIdle
    /\ \E c \in AnswerCorpora :
          jobs = [j \in JobIds |-> IF j = "j1"
                                   THEN [present |-> TRUE, status |-> "done",
                                         rag |-> RagOf(c), error |-> "None"]
                                   ELSE NoJob]
    /\ worker = [j \in JobIds |-> IF j = "j1" THEN [NoWorker EXCEPT !.pc = "exited"]
                                  ELSE NoWorker]
    /\ cursor = [j \in JobIds |-> <<>>]
    /\ \E q \in Questions, same \in BOOLEAN :
          call = [t \in Threads |-> IF t = "t1" THEN NewCall("j1", q, same, "done")
                                    ELSE IdleCall]

NextAnswer == \E t \in Threads : AnswerNext(t)

SpecAnswer == InitAnswer /\ [][NextAnswer]_vars

(***************************************************************************)
(* Properties of run_ingestion (SpecIngest)                                *)
(***************************************************************************)
\* the documents whose four passes are complete
DocsDone == IF ing.pc \in {"captions", "index", "returned"} THEN Len(ing.corpus)
            ELSE IF ing.pc \in {"text", "pages", "tables", "images"} THEN ing.d - 1
            ELSE 0

\* the documents whose page-fallback pass is complete
DocsPaged == IF ing.pc \in {"tables", "images"} THEN ing.d ELSE DocsDone

\* C5 (as claimed): when a conversion or captioning call fails, the chunk
\* store holds no committed chunk row of the corpus.
C5_NoPartialCommit ==
    (ing.pc = "raised" /\ ing.error \in {"ConversionError", "CaptionError"})
        => ing.committed = <<>>

\* C6 (as claimed): the chunk ids, in insertion order, are 1, 2, ..., N: the
\* i-th row inserted has id i, whatever its kind, and the counter equals the
\* number of rows inserted (no id is consumed without a chunk).  Violated when
\* the OCR of a picture raises: the image pass advances the counter before
\* the INSERT whose arguments call ocr_image.
C6_IdsAreConsecutive ==
    /\ \A i \in DOMAIN ing.st.rows : ing.st.rows[i].chunk_id = i
    /\ ing.st.cid = Len(ing.st.rows)

\* the rows of kind type that come from page p of document doc
RowsOfPage(doc, p, type) ==
    {i \in DOMAIN ing.st.rows :
        /\ ing.st.rows[i].content.doc = doc.name
        /\ ing.st.rows[i].page = p
        /\ ing.st.rows[i].type = type}

\* structural extraction gave a text-kind chunk for page p of doc
HasTextUnit(doc, p) ==
    \E k \in DOMAIN doc.units : doc.units[k].page = p /\ Classify(doc.units[k]) = "text"

\* C7 (as claimed): after the page-fallback pass of a document, each of its
\* pages has exactly one page-kind chunk if extraction gave it no text-kind
\* chunk, and none otherwise.
C7_EveryPageCovered ==
    \A d \in 1..DocsPaged : \A p \in 1..ing.corpus[d].npages :
        Cardinality(RowsOfPage(ing.corpus[d], p, "page"))
            = (IF HasTextUnit(ing.corpus[d], p) THEN 0 ELSE 1)

(***************************************************************************)
(* Properties of RagChat.answer (SpecAnswer)                               *)
(***************************************************************************)
\* the question of call t has a label reference / an image word / "table"
HasLabelRef(q)  == RefSearch(Lower(q), 1).ok
HasImageWord(q) == \E w \in {Chars("figure"), Chars("image"), Chars("diagram"), Chars("fig ")} :
                       Contains(Lower(q), w)
HasTableWord(q) == Contains(Lower(q), Chars("table"))

\* the label a question refers to, as written in the question
WrittenLabel(q) == RefText(q, RefSearch(Lower(q), 1))

\* the kind a label names
NamedKind(label) ==
    IF StartsWithAt(Lower(label), 1, Chars("fig")) THEN "image" ELSE "table"

\* C1: answer() takes one branch, in the priority label reference, image
\* intent, table intent, free text; the generation collaborator is invoked in
\* branch 4 only, and a call of branch 1, 2 or 3 issues exactly one
\* similarity search, with k = 1 and filtered to the kind of its branch.
C1_BranchPriority ==
    \A t \in Threads :
        LET c == call[t]
            q == c.question
            expected == IF HasLabelRef(q) THEN 1
                        ELSE IF HasImageWord(q) THEN 2
                        ELSE IF HasTableWord(q) THEN 3
                        ELSE 4
            kind == CASE expected = 1 -> NamedKind(WrittenLabel(q))
                      [] expected = 2 -> "image"
                      [] expected = 3 -> "table"
                      [] OTHER -> "text"
        IN  (c.answered /\ c.branch # 0) =>
               /\ c.branch = expected
               /\ (c.branch \in 1..3) =>
                     /\ c.llm = 0
                     /\ Len(c.searches) <= 1
                     /\ (c.pc \in {"execute", "fetchone", "done"}) =>
                           /\ Len(c.searches) = 1
                           /\ c.searches[1].type = kind
                           /\ c.searches[1].k = 1
               /\ (c.llm > 0) => c.branch = 4
               /\ (c.branch = 4 /\ c.pc # "llm") => c.llm = 1

\* C1 witness: a finished call whose question has an image word and "table",
\* and no label: it took branch 2 and searched the image chunks once
C1_Witness ==
    \E t \in Threads :
        /\ call[t].pc = "done" /\ call[t].answered
        /\ HasImageWord(call[t].question) /\ HasTableWord(call[t].question)
        /\ call[t].branch = 2
        /\ Len(call[t].searches) = 1 /\ call[t].searches[1].type = "image"

\* the rows of the store of call t with the chunk id cid
RowsWithId(t, cid) ==
    {i \in DOMAIN RagOfCall(t).rows : RagOfCall(t).rows[i].chunk_id = cid}

\* C2 (as claimed): the block that the label branch renders is the chunk of
\* the referenced kind whose label_key is the key of the referenced label; a
\* chunk with another key is never rendered for the reference.
C2_RendersReferencedLabel ==
    \A t \in Threads :
        LET c == call[t]
        IN  (/\ c.answered /\ c.branch = 1 /\ c.pc = "done" /\ c.raised = "None"
             /\ Len(c.out) = 1 /\ c.out[1].tag \in {"figure", "details"})
            => \A i \in RowsWithId(t, c.out[1].chunk_id) :
                  /\ RagOfCall(t).rows[i].type = NamedKind(WrittenLabel(c.question))
                  /\ RagOfCall(t).rows[i].label_key = label_key(WrittenLabel(c.question))

\* C3 (as claimed): when the label branch finds no hit, answer() returns the
\* label text as it was written in the question.
C3_NoHitReturnsWrittenLabel ==
    \A t \in Threads :
        LET c == call[t]
        IN  (c.answered /\ c.branch = 1 /\ c.pc = "done" /\ c.hits = <<0>>)
            => /\ c.raised = "None"
               /\ c.out = Txt(WrittenLabel(c.question))

\* C10 (as claimed): every similarity search that answer() issues through
\* branches 1-3 or through label injection has a non-empty query.
C10_NoEmptySearch ==
    \A t \in Threads :
        \A i \in DOMAIN call[t].searches :
            call[t].searches[i].k = 1 => call[t].searches[i].query # <<>>

(***************************************************************************)
(* Properties of label_key (SpecLabel)                                     *)
(***************************************************************************)
\* C9 (as claimed): for every head, every number written as a roman numeral
\* or in digits and every optional suffix letter a-z, label_key returns the
\* head's key, the decimal string of the number and the suffix; a text that
\* is no label gives None.
C9_KeyOfEveryLabel ==
    lk_out[1] = "returned" =>
        lk_out[2] = (IF lk_in.kind = "label" THEN ExpectedKey(lk_in) ELSE None)

\* the suffix cannot be read as one more letter of the roman numeral
SuffixIsDistinct(in) ==
    in.style = "arabic" \/ in.suff = <<>> \/ in.suff[1] \notin RomanSet

\* C9: the same, for the labels whose number is in digits or whose suffix is
\* not one of the letters i, v, x, l, c, d, m.
C9_KeyOfDistinctLabel ==
    (lk_out[1] = "returned" /\ (lk_in.kind = "label" => SuffixIsDistinct(lk_in))) =>
        lk_out[2] = (IF lk_in.kind = "label" THEN ExpectedKey(lk_in) ELSE None)

\* C9 witness: "Figure XIVb" has given fig14b
C9_Witness ==
    /\ lk_out[1] = "returned"
    /\ lk_in.kind = "label" /\ lk_in.style = "ROMAN" /\ lk_in.n = 14
    /\ lk_in.suff = <<"b">> /\ lk_in.head = Chars("Figure")
    /\ lk_out[2] = Chars("fig14b")

(***************************************************************************)
(* Properties of the application (Spec)                                    *)
(***************************************************************************)
NotFinished == Txt(Chars("Ingestion not finished."))

\* C4 (as claimed): a request for an unknown, pending or errored job is
\* answered "Ingestion not finished." and rag.answer is not called.
C4_OnlyDoneJobsAnswer ==
    \A t \in Threads :
        (call[t].pc # "idle" /\ call[t].seen \in {"absent", "pending", "error"})
            => (~call[t].answered /\ call[t].out = NotFinished)

\* C4: status "done" implies that the rag is set; rag.answer is called only
\* on the rag that the job's run_ingestion has returned; and a request for an
\* unknown or errored job is answered "Ingestion not finished." without a
\* call of rag.answer.
C4_RagOnlyAfterIngestion ==
    /\ \A j \in JobIds : jobs[j].status = "done" => jobs[j].rag.built
    /\ \A t \in Threads :
          /\ (call[t].pc # "idle" /\ call[t].answered) =>
                /\ worker[call[t].job].pc \in {"mark", "finishing", "exited"}
                /\ worker[call[t].job].rag.built
                /\ jobs[call[t].job].rag = worker[call[t].job].rag
          /\ (call[t].pc # "idle" /\ call[t].seen \in {"absent", "error"}) =>
                (~call[t].answered /\ call[t].out = NotFinished)
          /\ (call[t].pc # "idle" /\ ~call[t].answered) =>
                (call[t].out = NotFinished /\ call[t].searches = <<>> /\ call[t].llm = 0)

\* C4 witness: rag.answer is running for a job whose status is still "pending"
C4_Witness ==
    \E t \in Threads :
        /\ call[t].pc \notin {"idle", "route"} /\ call[t].answered
        /\ call[t].seen = "pending"
        /\ jobs[call[t].job].status = "pending"

\* fetch(cid) and the rendering, when no other call uses the cursor
SoloFetch(rag, c, kind, cid) ==
    IF ~ThreadAllowed(c) THEN [raised |-> "ProgrammingError", v |-> <<>>]
    ELSE LET rs == SelectById(rag.rows, cid)
         IN  IF rs = <<>> \/ (kind = "image" /\ rs[1].img_path = None)
             THEN [raised |-> "TypeError", v |-> <<>>]
             ELSE [raised |-> "None", v |-> <<RenderBlock(kind, rs[1])>>]

\* the substitution of the labels of c.text from position pos on, when the
\* k-th search is the next; buf is the text substituted so far
RECURSIVE SoloSub(_, _, _, _, _)
SoloSub(rag, c, pos, k, buf) ==
    LET m == RefSearch(Lower(c.text), pos)
    IN  IF ~m.ok
        THEN [raised |-> "None", out |-> buf \o Txt(SubSeq(c.text, pos, Len(c.text)))]
        ELSE LET label == RefText(c.text, m)
                 pre   == buf \o Txt(SubSeq(c.text, pos, m.start - 1))
                 f     == SoloFetch(rag, c, NamedKind(label), c.hits[k])
             IN  IF c.hits[k] = 0 THEN SoloSub(rag, c, m.stop, k + 1, pre \o Txt(label))
                 ELSE IF f.raised # "None" THEN [raised |-> f.raised, out |-> None]
                 ELSE SoloSub(rag, c, m.stop, k + 1, pre \o f.v)

\* what answer() gives for the question, the generated text and the search
\* results of the call c when it runs alone on rag
SoloAnswer(rag, c) ==
    LET q    == c.question
        kind == IF HasLabelRef(q) THEN NamedKind(WrittenLabel(q))
                ELSE IF HasImageWord(q) THEN "image" ELSE "table"
        f    == SoloFetch(rag, c, kind, c.hits[1])
    IN  IF ~HasLabelRef(q) /\ ~HasImageWord(q) /\ ~HasTableWord(q)
        THEN SoloSub(rag, c, 1, 1, <<>>)
        ELSE IF c.hits[1] = 0
        THEN [raised |-> "None",
              out |-> IF HasLabelRef(q) THEN Txt(RefText(Lower(q), RefSearch(Lower(q), 1)))
                      ELSE <<NoMatchBlock(kind)>>]
        ELSE IF f.raised # "None" THEN [raised |-> f.raised, out |-> None]
        ELSE [raised |-> "None", out |-> f.v]

\* C8: under every interleaving of concurrent answer() calls on the RagChat
\* of a job, a call ends as it would end alone with the same search results
\* (the same value returned, or the same error raised), and the chunk store
\* and vector index of the job stay what run_ingestion returned.
C8_ConcurrentCallsAsAlone ==
    /\ \A j \in JobIds : jobs[j].rag.built => jobs[j].rag = worker[j].rag
    /\ \A t \in Threads :
          (call[t].pc = "done" /\ call[t].answered) =>
              LET solo == SoloAnswer(RagOfCall(t), call[t])
              IN  /\ call[t].raised = solo.raised
                  /\ (solo.raised = "None") => call[t].out = solo.out

\* C8 witness: two calls on one RagChat, each with its own hit, one between
\* its search and its execute while the other is between execute and fetchone
C8_Witness ==
    \E t \in Threads, u \in Threads :
        /\ t # u /\ call[t].job = call[u].job
        /\ call[t].pc = "fetchone" /\ call[u].pc = "execute"
        /\ call[t].hit # call[u].hit

(***************************************************************************)
(* Properties of the free-text branch (SpecAnswer)                         *)
(***************************************************************************)
\* the label occurrences of the text s from position pos on, left to right
RECURSIVE LabelsOf(_, _)
LabelsOf(s, pos) ==
    LET m == RefSearch(Lower(s), pos)
    IN  IF ~m.ok THEN <<>> ELSE <<RefText(s, m)>> \o LabelsOf(s, m.stop)

\* the generated text g from position pos on, with its k-th and later label
\* occurrences replaced: by the block of the chunk found for it, or by itself
\* when hits[k] = 0; the text between them has its newlines turned into <br>
RECURSIVE InjectAll(_, _, _, _, _)
InjectAll(rag, g, pos, hits, k) ==
    LET m == RefSearch(Lower(g), pos)
    IN  IF ~m.ok THEN Txt(NewlinesToBr(SubSeq(g, pos, Len(g))))
        ELSE LET label == RefText(g, m)
                 piece == IF hits[k] = 0 THEN Txt(label)
                          ELSE <<RenderBlock(NamedKind(label),
                                             SelectById(rag.rows, hits[k])[1])>>
             IN  Txt(NewlinesToBr(SubSeq(g, pos, m.start - 1))) \o piece
                   \o InjectAll(rag, g, m.stop, hits, k + 1)

\* C11 (as claimed): when the free-text branch returns, every label
\* occurrence of the generated answer has been resolved by one search of its
\* kind and stands replaced, in its place, by the block found or by its own
\* text as written, and the text outside the labels is the generated text
\* with its newlines turned into <br>.
C11_EveryLabelReplaced ==
    \A t \in Threads :
        LET c == call[t]
        IN  (c.answered /\ c.branch = 4 /\ c.pc = "done" /\ c.raised = "None") =>
               \E g \in GeneratedTexts :
                  /\ c.text = NewlinesToBr(g)
                  /\ Len(c.hits) = Len(LabelsOf(g, 1))
                  /\ \A k \in DOMAIN c.hits :
                        /\ c.searches[k + 1].k = 1
                        /\ c.searches[k + 1].type = NamedKind(LabelsOf(g, 1)[k])
                  /\ c.out = InjectAll(RagOfCall(t), g, 1, c.hits, 1)

(***************************************************************************)
(* Properties of the vector index (SpecIngest)                             *)
(***************************************************************************)
\* the entries of the index and the rows of the store correspond one to one,
\* with the metadata of the row
IndexMatchesStore ==
    /\ Len(ing.index) = Len(ing.committed)
    /\ ing.committed = ing.st.rows
    /\ \A i \in DOMAIN ing.committed :
          LET r == ing.committed[i]
              e == {k \in DOMAIN ing.index : ing.index[k].metadata.chunk_id = r.chunk_id}
          IN  /\ Cardinality(e) = 1
              /\ \A k \in e : ing.index[k].metadata =
                                 [chunk_id |-> r.chunk_id, source |-> r.source,
                                  page |-> r.page, type |-> r.type]

\* the entry of the row r
EntryOf(r) ==
    ing.index[CHOOSE k \in DOMAIN ing.index : ing.index[k].metadata.chunk_id = r.chunk_id]

\* the captioning pass has written the caption of every image row
ImagesCaptioned ==
    \A i \in DOMAIN ing.committed :
        ing.committed[i].type = "image" => ing.committed[i].caption = ImageSummary

\* C12 (as claimed): when run_ingestion returns, the index has one entry per
\* chunk, with the chunk's metadata, whose text is the stored caption directly
\* followed by the content for an image or a table and the content otherwise.
C12_TextIsCaptionThenContent ==
    ing.pc = "returned" =>
        /\ IndexMatchesStore
        /\ ImagesCaptioned
        /\ \A i \in DOMAIN ing.committed :
              LET r == ing.committed[i]
              IN  EntryOf(r).page_content =
                     [caption |-> IF r.type \in {"image", "table"} THEN r.caption ELSE <<>>,
                      sep |-> <<>>, content |-> r.content]

\* C12: the same, with the text of an image or table entry being the stored
\* caption, a newline and the content.
C12_IndexMirrorsStore ==
    ing.pc = "returned" =>
        /\ IndexMatchesStore
        /\ ImagesCaptioned
        /\ \A i \in DOMAIN ing.committed :
              LET r == ing.committed[i]
              IN  EntryOf(r).page_content =
                     IF r.type \in {"image", "table"}
                     THEN [caption |-> r.caption, sep |-> <<"\n">>, content |-> r.content]
                     ELSE [caption |-> <<>>, sep |-> <<>>, content |-> r.content]

\* C12 witness: run_ingestion has returned an index over page, table and
\* image chunks of two documents
C12_Witness ==
    /\ ing.pc = "returned"
    /\ Len(ing.corpus) = 2
    /\ {"page", "table", "image"} \subseteq {ing.index[k].metadata.type : k \in DOMAIN ing.index}
    /\ \E k \in DOMAIN ing.index :
          /\ ing.index[k].metadata.type = "image"
          /\ ing.index[k].page_content.caption = ImageSummary

(***************************************************************************)
(* Thread confinement of the chunk store (Spec)                            *)
(***************************************************************************)
\* C13 (as claimed): while chat_api serves answer(), every fetch runs on the
\* thread that opened the connection of the job, so no lookup with a hit is
\* rejected by the store for cross-thread use.
C13_FetchOnOpeningThread ==
    \A t \in Threads :
        /\ (call[t].answered /\ call[t].pc \in {"execute", "fetchone"}) => call[t].same
        /\ call[t].raised # "ProgrammingError"

====
